---- MODULE Spec2Model ----
(***************************************************************************)
(* FolderAnalyser: dir_analyzer.main and the single-pass walk of           *)
(* analyze_filesystem, modelled as a state machine.                        *)
(*                                                                         *)
(* The environment (what dir_path names, the tree below it, config.json)   *)
(* is fixed by Init and never changes; the program state is main's         *)
(* position, the os.walk stack, the loop positions of analyze_directories  *)
(* and analyze_files, and the counters the walk accumulates.  Strings that *)
(* the code compares by prefix (tags, mimetypes) are tuples of characters. *)
(***************************************************************************)
EXTENDS Integers, Sequences, FiniteSets, TLC

\* ------------------------------------------------------------------ bounds
NumDirs == 1      \* subdirectories below the root, numbered 1..NumDirs
NumFiles == 3     \* files of the tree, numbered 1..NumFiles
MaxCalls == 2     \* calls of main that one process makes, one after the other

\* ------------------------------------------------------- program constants
S_IWOTH == 2      \* stat.S_IWOTH, 0o0002
S_ISUID == 2048   \* stat.S_ISUID, 0o4000
S_ISGID == 1024   \* stat.S_ISGID, 0o2000
GiB == 1073741824 \* 2**30
EXIT_DEFAULT == 0 \* the exit code of typer.Exit() raised without a code

\* Optional values (str | None, int | None): None is the empty tuple and a
\* value x is the one-element tuple <<x>>
None == << >>
Some(x) == <<x>>

\* ------------------------------------------------------------------ strings
image_ == <<"i","m","a","g","e","/">>
text_ == <<"t","e","x","t","/">>
audio_ == <<"a","u","d","i","o","/">>
video_ == <<"v","i","d","e","o","/">>
application_ == <<"a","p","p","l","i","c","a","t","i","o","n","/">>
text_plain == text_ \o <<"p","l","a","i","n">>
image_png == image_ \o <<"p","n","g">>
empty_str == << >>

\* str.startswith
StartsWith(s, prefix) ==
    /\ Len(prefix) <= Len(s)
    /\ SubSeq(s, 1, Len(prefix)) = prefix

\* mode & bit, for a mask of one bit
BitAnd(mode, bit) == ((mode \div bit) % 2) * bit

\* ------------------------------------------------------------ configuration
DEFAULT_CONFIG ==
    [searchable_types |->
        << [name |-> "Image", tag |-> image_],
           [name |-> "Text", tag |-> text_],
           [name |-> "Audio", tag |-> audio_],
           [name |-> "Video", tag |-> video_],
           [name |-> "Application", tag |-> application_] >>]

\* Two categories whose prefixes both match text/plain, in both orders
CONFIG_OVERLAP ==
    [searchable_types |->
        << [name |-> "Text", tag |-> text_],
           [name |-> "Plain", tag |-> text_plain] >>]

CONFIG_OVERLAP_REV ==
    [searchable_types |->
        << [name |-> "Plain", tag |-> text_plain],
           [name |-> "Text", tag |-> text_] >>]

\* A category with an empty tag after a proper one
CONFIG_EMPTY_TAG ==
    [searchable_types |->
        << [name |-> "Image", tag |-> image_],
           [name |-> "Any", tag |-> empty_str] >>]

\* No category at all: the schema's minProperties rejects it
CONFIG_NO_TYPES == [searchable_types |-> << >>]

\* jsonschema.validate(config, CONFIG_SCHEMA): an object with at least one
\* searchable type, each with a string tag (any string, the empty one too)
SchemaAccepts(cfg) == Len(cfg.searchable_types) >= 1

OUTPUT_PATHS ==
    {"bigfiles_output_path", "permissions_output_path", "analysis_output_path"}

\* --------------------------------------------------------------- the tree
\* Directory 0 is dir_path itself; subdirectory d lies in directory d \div 2
\* and file f in directory (f \div 2) % (NumDirs + 1).  scandir lists the
\* entries of a directory in ascending order.
Dirs == 0..NumDirs
SubDirs == 1..NumDirs
Files == 1..NumFiles
ParentOfDir(d) == d \div 2
DirOfFile(f) == (f \div 2) % (NumDirs + 1)

DirName(d) == <<"dir", d>>
FileName(f) == <<"file", f>>
\* os.path.join(root, name)
PathJoin(root_path, name) == Append(root_path, name)
ROOT_PATH == << DirName(0) >>
EntryOf(path) == path[Len(path)][2]

RECURSIVE SortedSeq(_)
SortedSeq(S) ==
    IF S = {} THEN << >>
    ELSE LET m == CHOOSE x \in S : \A y \in S : x <= y
         IN  <<m>> \o SortedSeq(S \ {m})

RECURSIVE Reversed(_)
Reversed(s) == IF s = << >> THEN << >> ELSE Append(Reversed(Tail(s)), Head(s))

VARIABLES
    root_kind,            \* what dir_path names: "missing", "file" or "dir"
    fs_dirs,              \* directory -> [mode, fault, listable]
    fs_files,             \* file -> [guess, magic, size, mode, fault]
    config_json,          \* the content of ./config.json
    size_threshold,       \* main's --size-threshold, in GiB
    thorough,             \* main's --thorough
    pc,                   \* main's position
    config,               \* main's config
    exit_code,            \* the code of the typer.Exit raised, None when none was
    file_count,           \* main's file_count
    walks_started,        \* number of os.walk traversals begun
    walk_stack,           \* os.walk's stack of directories still to list
    root,                 \* the directory os.walk yielded last
    dirs,                 \* ... its subdirectory names
    files,                \* ... its file names
    idx,                  \* position of the loop of analyze_directories / analyze_files
    step,                 \* the call analyze_files makes next for files[idx]
    errors,               \* the local errors of analyze_directories / analyze_files
    result_storages,      \* category name -> [found_files, found_size]
    others_storage,
    totals_storage,
    bigfiles_storage,     \* [found_files, found_size, found_files_paths]
    permission_warnings,
    errors_count,
    displayed,            \* number of tables printed on the terminal
    out_files,            \* output path -> None, or Some(content) once written
    to_file,              \* main's --to-file, once the call has read it
    calls_left,           \* calls of main the process still makes after this one
    history,              \* what the earlier calls of main returned, in order
    inspected             \* history: the paths whose permissions were inspected
                          \* by this call, in the order of the inspections

env == <<root_kind, fs_dirs, fs_files, config_json, size_threshold, thorough>>
walk == <<walk_stack, root, dirs, files, idx, step, errors>>
storages == <<result_storages, others_storage, totals_storage, bigfiles_storage>>
outputs == <<displayed, out_files>>
calls == <<to_file, calls_left, history>>
vars == <<env, pc, config, exit_code, file_count, walks_started, walk, storages,
          permission_warnings, errors_count, outputs, calls, inspected>>

\* ------------------------------------------------------- the data class
str_None == <<"N","o","n","e">>
FiletypeInfoStorage(tag, displayable_name) ==
    [tag |-> tag, displayable_name |-> displayable_name,
     found_files |-> 0, found_size |-> 0, found_files_paths |-> << >>]

\* ----------------------------------------------------- the system calls
\* The fault of an entry names the one call that raises OSError (or a
\* magic error) for it: "os.stat", "magic.from_file", "getsize@mimetype"
\* (os.path.getsize in analyze_files_mimetype) or "getsize@filesize"
\* (os.path.getsize in analyze_filesize, the entry vanished in between);
\* "none" when every call succeeds.
IsFilePath(path) == path[Len(path)][1] = "file"
Attrs(path) == IF IsFilePath(path) THEN fs_files[EntryOf(path)]
               ELSE fs_dirs[EntryOf(path)]

os_stat(path) ==
    [raised |-> Attrs(path).fault = "os.stat", st_mode |-> Attrs(path).mode]
magic_from_file(path) ==
    [raised |-> Attrs(path).fault = "magic.from_file", value |-> Attrs(path).magic]
mimetypes_guess_type(path) == Attrs(path).guess
os_path_getsize(path, call) ==
    [raised |-> Attrs(path).fault = call, value |-> Attrs(path).size]
\* scandir(top), as os.walk calls it
scandir(path) ==
    [raised |-> ~Attrs(path).listable,
     dirs |-> SortedSeq({d \in SubDirs : ParentOfDir(d) = EntryOf(path)}),
     files |-> SortedSeq({f \in Files : DirOfFile(f) = EntryOf(path)})]

\* ------------------------------------------------------------- check_path
\* os.path.exists alone, without the os.path.isdir check
check_path_exists_only(kind) == kind # "missing"
\* TRUE when check_path returns, FALSE when it raises typer.Exit
check_path(kind) == kind # "missing" /\ kind = "dir"

\* TRUE when check_size_threshold returns, FALSE when it raises typer.Exit
check_size_threshold(threshold) == ~(threshold < 0)

\* ------------------------------------------------- analyze_files_mimetype
RECURSIVE FirstMatchFrom(_, _, _)
\* the loop over result_storages.values(): the index of the first storage
\* from i on whose tag the mimetype starts with, 0 when the loop runs out
FirstMatchFrom(i, mime_type, rs) ==
    IF i > Len(rs) THEN 0
    ELSE IF StartsWith(mime_type, rs[i].tag) THEN i
    ELSE FirstMatchFrom(i + 1, mime_type, rs)

RECURSIVE LastMatchFrom(_, _, _)
LastMatchFrom(i, mime_type, rs) ==
    IF i > Len(rs) THEN 0
    ELSE LET later == LastMatchFrom(i + 1, mime_type, rs)
         IN  IF later # 0 THEN later
             ELSE IF StartsWith(mime_type, rs[i].tag) THEN i ELSE 0

LastMatch(mime_type, rs) == LastMatchFrom(1, mime_type, rs)
FirstMatch(mime_type, rs) == FirstMatchFrom(1, mime_type, rs)

Counted(storage, file_size) ==
    [storage EXCEPT !.found_files = @ + 1, !.found_size = @ + file_size]

\* a matched file falls through to the 'other' bucket as well
CountInBuckets_fallthrough(mime_type, file_size, rs, os) ==
    LET m == FirstMatch(mime_type, rs)
    IN  [result_storages |-> IF m # 0 THEN [rs EXCEPT ![m] = Counted(@, file_size)]
                             ELSE rs,
         others_storage |-> Counted(os, file_size)]

\* lines 123-130: the first matching storage, else others_storage
CountInBuckets(mime_type, file_size, rs, os) ==
    LET m == FirstMatch(mime_type, rs)
    IN  IF m # 0
        THEN [result_storages |-> [rs EXCEPT ![m] = Counted(@, file_size)],
              others_storage |-> os]
        ELSE [result_storages |-> rs,
              others_storage |-> Counted(os, file_size)]

\* lines 114-119: the mimetype, by content or by name
ResolveMimetype(target_path, thorough_) ==
    IF thorough_
    THEN magic_from_file(target_path)
    ELSE LET guess == mimetypes_guess_type(target_path)
         IN  [raised |-> FALSE,
              value |-> IF guess = None THEN empty_str ELSE guess[1]]

\* totals are counted before os.path.getsize is called
analyze_files_mimetype_totals_first(target_path, rs, os, ts, thorough_) ==
    LET mime == ResolveMimetype(target_path, thorough_)
        size == os_path_getsize(target_path, "getsize@mimetype")
        b == CountInBuckets(mime.value, size.value, rs, os)
    IN  IF mime.raised
        THEN [raised |-> TRUE, result_storages |-> rs, others_storage |-> os,
              totals_storage |-> ts]
        ELSE IF size.raised
        THEN [raised |-> TRUE, result_storages |-> rs, others_storage |-> os,
              totals_storage |-> [ts EXCEPT !.found_files = @ + 1]]
        ELSE [raised |-> FALSE, result_storages |-> b.result_storages,
              others_storage |-> b.others_storage,
              totals_storage |-> Counted(ts, size.value)]

\* The storages as the call leaves them, and whether it raised
analyze_files_mimetype(target_path, rs, os, ts, thorough_) ==
    LET mime == ResolveMimetype(target_path, thorough_)
        size == os_path_getsize(target_path, "getsize@mimetype")
        b == CountInBuckets(mime.value, size.value, rs, os)
    IN  IF mime.raised \/ size.raised
        THEN [raised |-> TRUE, result_storages |-> rs, others_storage |-> os,
              totals_storage |-> ts]
        ELSE [raised |-> FALSE, result_storages |-> b.result_storages,
              others_storage |-> b.others_storage,
              totals_storage |-> Counted(ts, size.value)]

\* ------------------------------------------------------------ permissions
Warning(kind, path) == [kind |-> kind, path |-> path]

\* the three checks as an if / elif chain: the first set bit wins
analyze_file_permissions_first_wins(file_path) ==
    LET st == os_stat(file_path)
        mode == st.st_mode
    IN  [raised |-> st.raised,
         value |-> IF st.raised THEN None
                   ELSE IF BitAnd(mode, S_IWOTH) # 0
                        THEN Some(Warning("world-writable", file_path))
                   ELSE IF BitAnd(mode, S_ISUID) # 0
                        THEN Some(Warning("SUID is set", file_path))
                   ELSE IF BitAnd(mode, S_ISGID) # 0
                        THEN Some(Warning("SGID bit set", file_path))
                   ELSE None]

\* three independent ifs, each overwriting warning_message
analyze_file_permissions(file_path) ==
    LET st == os_stat(file_path)
        mode == st.st_mode
        w0 == None
        w1 == IF BitAnd(mode, S_IWOTH) # 0
              THEN Some(Warning("world-writable", file_path)) ELSE w0
        w2 == IF BitAnd(mode, S_ISUID) # 0
              THEN Some(Warning("SUID is set", file_path)) ELSE w1
        w3 == IF BitAnd(mode, S_ISGID) # 0
              THEN Some(Warning("SGID bit set", file_path)) ELSE w2
    IN  [raised |-> st.raised, value |-> IF st.raised THEN None ELSE w3]

analyze_dir_permissions(dir_path) ==
    LET st == os_stat(dir_path)
    IN  [raised |-> st.raised,
         value |-> IF ~st.raised /\ BitAnd(st.st_mode, S_IWOTH) # 0
                   THEN Some(Warning("world-writable", dir_path)) ELSE None]

\* the newest warning first
Appended_in_front(warnings, permission_warning) ==
    IF permission_warning # None THEN <<permission_warning[1]>> \o warnings
    ELSE warnings

\* if permission_warning: permission_warnings.append(permission_warning)
Appended(warnings, permission_warning) ==
    IF permission_warning # None THEN Append(warnings, permission_warning[1])
    ELSE warnings

\* --------------------------------------------------------- analyze_filesize
\* the path appended without the count
analyze_filesize_path_only(file_path, bs, threshold) ==
    LET size == os_path_getsize(file_path, "getsize@filesize")
    IN  IF size.raised THEN [raised |-> TRUE, bigfiles_storage |-> bs]
        ELSE IF size.value > threshold * GiB
        THEN [raised |-> FALSE,
              bigfiles_storage |->
                  [bs EXCEPT !.found_size = @ + size.value,
                             !.found_files_paths = Append(@, file_path)]]
        ELSE [raised |-> FALSE, bigfiles_storage |-> bs]

\* the comparison as "at least the threshold"
analyze_filesize_at_least(file_path, bs, threshold) ==
    LET size == os_path_getsize(file_path, "getsize@filesize")
    IN  IF size.raised THEN [raised |-> TRUE, bigfiles_storage |-> bs]
        ELSE IF size.value >= threshold * GiB
        THEN [raised |-> FALSE,
              bigfiles_storage |->
                  [bs EXCEPT !.found_files = @ + 1,
                             !.found_size = @ + size.value,
                             !.found_files_paths = Append(@, file_path)]]
        ELSE [raised |-> FALSE, bigfiles_storage |-> bs]

\* lines 189-194
analyze_filesize(file_path, bs, threshold) ==
    LET size == os_path_getsize(file_path, "getsize@filesize")
    IN  IF size.raised THEN [raised |-> TRUE, bigfiles_storage |-> bs]
        ELSE IF size.value > threshold * GiB
        THEN [raised |-> FALSE,
              bigfiles_storage |->
                  [bs EXCEPT !.found_files = @ + 1,
                             !.found_size = @ + size.value,
                             !.found_files_paths = Append(@, file_path)]]
        ELSE [raised |-> FALSE, bigfiles_storage |-> bs]

\* ------------------------------------------------ the try / except of a file
\* except (OSError, magic.MagicException): errors += 1
errors_after(errors_, raised) == IF raised THEN errors_ + 1 ELSE errors_

\* ------------------------------------------------------------------- main
\* lines 443-446: DEFAULT_CONFIG, or get_config() when the schema accepts
\* config.json; a rejected config.json raises out of main.  The output
\* paths of the configuration are taken to be writable (check_config_paths).
LoadConfig ==
    /\ pc = "start"
    /\ \E use_default_config \in BOOLEAN :
          IF use_default_config
          THEN config' = DEFAULT_CONFIG /\ pc' = "check_path"
          ELSE IF SchemaAccepts(config_json)
          THEN config' = config_json /\ pc' = "check_path"
          ELSE config' = config /\ pc' = "raised"
    /\ UNCHANGED <<env, calls, inspected, exit_code, file_count, walks_started, walk, storages,
                   permission_warnings, errors_count, outputs>>

\* line 447
CheckPath ==
    /\ pc = "check_path"
    /\ IF check_path(root_kind)
       THEN pc' = "check_size_threshold" /\ exit_code' = exit_code
       ELSE pc' = "exited" /\ exit_code' = Some(EXIT_DEFAULT)
    /\ UNCHANGED <<env, calls, inspected, config, file_count, walks_started, walk, storages,
                   permission_warnings, errors_count, outputs>>

\* line 448
CheckSizeThreshold ==
    /\ pc = "check_size_threshold"
    /\ IF check_size_threshold(size_threshold)
       THEN pc' = "count_files" /\ exit_code' = exit_code
       ELSE pc' = "exited" /\ exit_code' = Some(EXIT_DEFAULT)
    /\ UNCHANGED <<env, calls, inspected, config, file_count, walks_started, walk, storages,
                   permission_warnings, errors_count, outputs>>

RECURSIVE Listed(_)
\* the directories os.walk lists: reached through listable directories only
Listed(d) ==
    /\ fs_dirs[d].listable
    /\ d = 0 \/ Listed(ParentOfDir(d))

\* sum(len(files) for _, _, files in os.walk(dir_path))
count_files == Cardinality({f \in Files : Listed(DirOfFile(f))})

\* lines 450-454
CountFiles ==
    /\ pc = "count_files"
    /\ \E no_estimate \in BOOLEAN :
          IF no_estimate
          THEN file_count' = None /\ walks_started' = walks_started
          ELSE file_count' = Some(count_files) /\ walks_started' = walks_started + 1
    /\ pc' = "analyze_filesystem"
    /\ UNCHANGED <<env, calls, inspected, config, exit_code, walk, storages,
                   permission_warnings, errors_count, outputs>>

\* the category storages of the run before, kept when there are any
NewStorages_kept(types) ==
    IF Len(result_storages) = Len(types) THEN result_storages
    ELSE [i \in 1..Len(types) |-> FiletypeInfoStorage(types[i].tag, types[i].name)]

RECURSIVE NewStorages(_)
\* lines 295-297, in the order of searchable_types_config.items()
NewStorages(types) ==
    IF types = << >> THEN << >>
    ELSE <<FiletypeInfoStorage(Head(types).tag, Head(types).name)>>
             \o NewStorages(Tail(types))

\* lines 295-326: fresh storages, and os.walk(root_dir_path) begins
StartAnalysis ==
    /\ pc = "analyze_filesystem"
    /\ result_storages' = NewStorages(config.searchable_types)
    /\ others_storage' = FiletypeInfoStorage(str_None, "Other")
    /\ totals_storage' = FiletypeInfoStorage(str_None, "Total")
    /\ bigfiles_storage' = FiletypeInfoStorage(str_None, "Big")
    /\ permission_warnings' = << >>
    /\ errors_count' = 0
    /\ walk_stack' = <<ROOT_PATH>>
    /\ walks_started' = walks_started + 1
    /\ inspected' = << >>
    /\ pc' = "walk"
    /\ UNCHANGED <<env, calls, config, exit_code, file_count, root, dirs, files, idx,
                   step, errors, outputs>>

\* os.walk pops a directory and lists it; a scandir error is ignored
\* (onerror is None) and the directory skipped, else (root, dirs, files) is
\* yielded and analyze_directories starts
WalkNext ==
    /\ pc = "walk"
    /\ walk_stack # << >>
    /\ LET top == walk_stack[Len(walk_stack)]
           rest == SubSeq(walk_stack, 1, Len(walk_stack) - 1)
           ls == scandir(top)
       IN  IF ls.raised
           THEN /\ walk_stack' = rest
                /\ UNCHANGED <<pc, root, dirs, files, idx, step, errors>>
           ELSE /\ walk_stack' = rest
                /\ root' = top
                /\ dirs' = [i \in 1..Len(ls.dirs) |-> DirName(ls.dirs[i])]
                /\ files' = [i \in 1..Len(ls.files) |-> FileName(ls.files[i])]
                /\ idx' = 1
                /\ step' = "permissions"
                /\ errors' = 0
                /\ pc' = "analyze_directories"
    /\ UNCHANGED <<env, calls, inspected, config, exit_code, file_count, walks_started, storages,
                   permission_warnings, errors_count, outputs>>

\* the directory itself in place of its subdirectory
InspectedPath_unjoined(root_, dir) == root_
\* lines 212-213: the path analyze_directories inspects for dir
InspectedPath(root_, dir) == PathJoin(root_, dir)

\* lines 210-217: one directory of dirs
AnalyzeDirectory ==
    /\ pc = "analyze_directories"
    /\ idx <= Len(dirs)
    /\ LET r == analyze_dir_permissions(InspectedPath(root, dirs[idx]))
       IN  /\ permission_warnings' = Appended(permission_warnings, r.value)
           /\ errors' = errors_after(errors, r.raised)
    /\ inspected' = Append(inspected, InspectedPath(root, dirs[idx]))
    /\ idx' = idx + 1
    /\ UNCHANGED <<env, calls, pc, config, exit_code, file_count, walks_started,
                   walk_stack, root, dirs, files, step, storages, errors_count, outputs>>

\* line 218 and lines 327-329: errors_count += analyze_directories(...),
\* then analyze_files starts
AnalyzeDirectoriesReturn ==
    /\ pc = "analyze_directories"
    /\ idx > Len(dirs)
    /\ errors_count' = errors_count + errors
    /\ errors' = 0
    /\ idx' = 1
    /\ step' = "permissions"
    /\ pc' = "analyze_files"
    /\ UNCHANGED <<env, calls, inspected, config, exit_code, file_count, walks_started,
                   walk_stack, root, dirs, files, storages, permission_warnings,
                   outputs>>

\* the step after a call of the try block: the next call, or with an
\* exception (or after the last call) the next file
step_after_no_skip(step_, raised) ==
    IF step_ = "permissions" THEN "mimetype"
    ELSE IF step_ = "mimetype" THEN "filesize"
    ELSE "permissions"

step_after(step_, raised) ==
    IF raised THEN "permissions"
    ELSE IF step_ = "permissions" THEN "mimetype"
    ELSE IF step_ = "mimetype" THEN "filesize"
    ELSE "permissions"

\* lines 251-253 for files[idx]
FilePermissions ==
    /\ pc = "analyze_files"
    /\ idx <= Len(files)
    /\ step = "permissions"
    /\ LET r == analyze_file_permissions(PathJoin(root, files[idx]))
       IN  /\ permission_warnings' = Appended(permission_warnings, r.value)
           /\ errors' = errors_after(errors, r.raised)
           /\ step' = step_after(step, r.raised)
           /\ idx' = IF step' = "permissions" THEN idx + 1 ELSE idx
    /\ inspected' = Append(inspected, PathJoin(root, files[idx]))
    /\ UNCHANGED <<env, calls, pc, config, exit_code, file_count, walks_started,
                   walk_stack, root, dirs, files, storages, errors_count, outputs>>

\* lines 255-257 for files[idx]
FileMimetype ==
    /\ pc = "analyze_files"
    /\ idx <= Len(files)
    /\ step = "mimetype"
    /\ LET r == analyze_files_mimetype(PathJoin(root, files[idx]), result_storages,
                                       others_storage, totals_storage, thorough)
       IN  /\ result_storages' = r.result_storages
           /\ others_storage' = r.others_storage
           /\ totals_storage' = r.totals_storage
           /\ errors' = errors_after(errors, r.raised)
           /\ step' = step_after(step, r.raised)
           /\ idx' = IF step' = "permissions" THEN idx + 1 ELSE idx
    /\ UNCHANGED <<env, calls, inspected, pc, config, exit_code, file_count, walks_started,
                   walk_stack, root, dirs, files, bigfiles_storage,
                   permission_warnings, errors_count, outputs>>

\* lines 258-259 for files[idx]
FileSize ==
    /\ pc = "analyze_files"
    /\ idx <= Len(files)
    /\ step = "filesize"
    /\ LET r == analyze_filesize(PathJoin(root, files[idx]), bigfiles_storage,
                                 size_threshold)
       IN  /\ bigfiles_storage' = r.bigfiles_storage
           /\ errors' = errors_after(errors, r.raised)
           /\ step' = step_after(step, r.raised)
           /\ idx' = idx + 1
    /\ UNCHANGED <<env, calls, inspected, pc, config, exit_code, file_count, walks_started,
                   walk_stack, root, dirs, files, result_storages, others_storage,
                   totals_storage, permission_warnings, errors_count, outputs>>

\* line 262 and lines 330-335: errors_count += analyze_files(...); os.walk
\* resumes and pushes the subdirectories, the first one on top
AnalyzeFilesReturn ==
    /\ pc = "analyze_files"
    /\ idx > Len(files)
    /\ errors_count' = errors_count + errors
    /\ errors' = 0
    /\ walk_stack' = walk_stack \o
           [i \in 1..Len(dirs) |-> PathJoin(root, Reversed(dirs)[i])]
    /\ pc' = "walk"
    /\ UNCHANGED <<env, calls, inspected, config, exit_code, file_count, walks_started,
                   root, dirs, files, idx, step, storages, permission_warnings,
                   outputs>>

\* lines 336-344: the walk is over, analyze_filesystem returns to main
WalkDone ==
    /\ pc = "walk"
    /\ walk_stack = << >>
    /\ pc' = "report"
    /\ UNCHANGED <<env, calls, inspected, config, exit_code, file_count, walks_started, walk,
                   storages, permission_warnings, errors_count, outputs>>

build_rich_table ==
    [categories |-> result_storages, other |-> others_storage,
     big |-> bigfiles_storage, threshold |-> size_threshold,
     errors |-> errors_count, totals |-> totals_storage]

\* the table goes to the file in place of the terminal
Report_exclusive ==
    /\ pc = "report"
    /\ \E flag \in BOOLEAN :
          /\ to_file' = flag
          /\ displayed' = IF flag THEN displayed ELSE displayed + 1
          /\ out_files' = IF flag
                          THEN [out_files EXCEPT !["analysis_output_path"] =
                                                     Some(build_rich_table)]
                          ELSE out_files
    /\ pc' = "write_bigfiles"
    /\ UNCHANGED <<env, calls_left, history, inspected, config, exit_code, file_count,
                   walks_started, walk, storages, permission_warnings, errors_count>>

\* lines 473-485: the table is printed, and with --to-file written as well
Report ==
    /\ pc = "report"
    /\ displayed' = displayed + 1
    /\ \E flag \in BOOLEAN :
          /\ to_file' = flag
          /\ out_files' = IF flag
                          THEN [out_files EXCEPT !["analysis_output_path"] =
                                                     Some(build_rich_table)]
                          ELSE out_files
    /\ pc' = "write_bigfiles"
    /\ UNCHANGED <<env, calls_left, history, inspected, config, exit_code, file_count,
                   walks_started, walk, storages, permission_warnings, errors_count>>

\* lines 487-488
WriteBigfiles ==
    /\ pc = "write_bigfiles"
    /\ out_files' = [out_files EXCEPT !["bigfiles_output_path"] =
                                          Some(bigfiles_storage.found_files_paths)]
    /\ pc' = "write_permissions"
    /\ UNCHANGED <<env, calls, inspected, config, exit_code, file_count, walks_started, walk,
                   storages, permission_warnings, errors_count, displayed>>

\* lines 492-499: the dictionary main returns
ReturnValue ==
    [result_storages |-> result_storages, others_storage |-> others_storage,
     totals_storage |-> totals_storage, big_files_storage |-> bigfiles_storage,
     errored_files_count |-> errors_count,
     permission_warnings |-> permission_warnings]

\* lines 489-499
WritePermissions ==
    /\ pc = "write_permissions"
    /\ out_files' = [out_files EXCEPT !["permissions_output_path"] =
                                          Some(permission_warnings)]
    /\ history' = Append(history, [config |-> config, returned |-> ReturnValue])
    /\ pc' = "returned"
    /\ UNCHANGED <<env, to_file, calls_left, inspected, config, exit_code, file_count,
                   walks_started, walk, storages, permission_warnings, errors_count,
                   displayed>>

\* The process calls main once more (as the fixtures of one pytest session
\* do), with the same dir_path, threshold and mode: the objects of the call
\* before are still there, main's locals are new.
CallAgain ==
    /\ pc = "returned"
    /\ calls_left > 0
    /\ calls_left' = calls_left - 1
    /\ to_file' = FALSE
    /\ file_count' = None
    /\ pc' = "start"
    /\ UNCHANGED <<env, history, inspected, config, exit_code, walks_started, walk,
                   storages, permission_warnings, errors_count, outputs>>

Next ==
    \/ LoadConfig
    \/ CheckPath
    \/ CheckSizeThreshold
    \/ CountFiles
    \/ StartAnalysis
    \/ WalkNext
    \/ AnalyzeDirectory
    \/ AnalyzeDirectoriesReturn
    \/ FilePermissions
    \/ FileMimetype
    \/ FileSize
    \/ AnalyzeFilesReturn
    \/ WalkDone
    \/ Report
    \/ WriteBigfiles
    \/ WritePermissions
    \/ CallAgain

\* ------------------------------------------------------- the environments
\* A regular file: recognised by name and by content, 0o644
File(guess, magic, size) ==
    [guess |-> guess, magic |-> magic, size |-> size, mode |-> 420, fault |-> "none"]
PNG == File(Some(image_png), image_png, 2)
\* ... with the given mode bits
WithMode(kind, mode) == [kind EXCEPT !.mode = mode]
\* ... for which the given call raises
WithFault(kind, fault) == [kind EXCEPT !.fault = fault]

\* A directory; one that cannot be stat'ed cannot be listed either
Dir(mode, listable) == [mode |-> mode, fault |-> "none", listable |-> listable]
DIR_OK == Dir(493, TRUE)
DIR_UNLISTABLE == Dir(0, FALSE)
DIR_VANISHED == [mode |-> 493, fault |-> "os.stat", listable |-> FALSE]

FILE_FAULTS == {"os.stat", "magic.from_file", "getsize@mimetype", "getsize@filesize"}

\* The state main starts in, with the environment drawn from the given sets.
\* Nothing lies below a dir_path that is no directory; the runs that a
\* rejected config.json ends, or replaces by the default, see one tree, and
\* so does a process that calls main again, unless the number of its further
\* calls is in AnyTreeCalls.
InitFrom(RootKinds, ConfigJsons, Thresholds, Thoroughs, RootDirKinds, DirKinds, FileTrees, AnyTreeCalls) ==
    /\ root_kind \in RootKinds
    /\ config_json \in ConfigJsons
    /\ size_threshold \in Thresholds
    /\ thorough \in Thoroughs
    /\ fs_dirs \in [Dirs -> RootDirKinds \cup DirKinds]
    /\ fs_dirs[0] \in RootDirKinds
    /\ \A d \in SubDirs : fs_dirs[d] \in DirKinds
    /\ fs_files \in FileTrees
    /\ calls_left \in 0..(MaxCalls - 1)
    /\ (root_kind # "dir" \/ ~SchemaAccepts(config_json)
           \/ calls_left \notin AnyTreeCalls) =>
          /\ fs_dirs = [d \in Dirs |-> DIR_OK]
          /\ fs_files = [f \in Files |-> PNG]
    /\ pc = "start"
    /\ config = CONFIG_NO_TYPES
    /\ exit_code = None
    /\ file_count = None
    /\ walks_started = 0
    /\ walk_stack = << >>
    /\ root = << >>
    /\ dirs = << >>
    /\ files = << >>
    /\ idx = 1
    /\ step = "permissions"
    /\ errors = 0
    /\ result_storages = << >>
    /\ others_storage = FiletypeInfoStorage(str_None, "Other")
    /\ totals_storage = FiletypeInfoStorage(str_None, "Total")
    /\ bigfiles_storage = FiletypeInfoStorage(str_None, "Big")
    /\ permission_warnings = << >>
    /\ errors_count = 0
    /\ displayed = 0
    /\ out_files = [p \in OUTPUT_PATHS |-> None]
    /\ to_file = FALSE
    /\ history = << >>
    /\ inspected = << >>

ROOT_KINDS == {"missing", "file", "dir"}

\* Every kind of failure, one kind of file, the default categories
Init ==
    InitFrom(ROOT_KINDS, {DEFAULT_CONFIG, CONFIG_NO_TYPES}, {-1, 0}, BOOLEAN,
             {DIR_OK, DIR_UNLISTABLE},
             {DIR_OK, DIR_UNLISTABLE, DIR_VANISHED},
             [Files -> {PNG} \cup {WithFault(PNG, fault) : fault \in FILE_FAULTS}],
             {0})

Spec == Init /\ [][Next]_vars

\* Files by type and size: recognised by name and content, or by content only
TXT == File(Some(text_plain), text_plain, 1)
README == File(None, text_plain, 1)

\* Every kind of file, every failure in and after the classification, under
\* every category configuration
InitClassify ==
    InitFrom(ROOT_KINDS,
             {DEFAULT_CONFIG, CONFIG_OVERLAP, CONFIG_OVERLAP_REV, CONFIG_EMPTY_TAG,
              CONFIG_NO_TYPES},
             {0}, BOOLEAN, {DIR_OK}, {DIR_OK},
             [Files -> {PNG, TXT, README}
                       \cup {WithFault(TXT, fault) : fault \in FILE_FAULTS \ {"os.stat"}}],
             {0})

SpecClassify == InitClassify /\ [][Next]_vars

\* The eight combinations of the three bits on a file (0o644, 0o646, 0o4755,
\* 0o4757, 0o2755, 0o2757, 0o6755, 0o6777) and the bits of a directory
\* (0o755, 0o777, 0o6755, 0o6777).  The first two files take every
\* combination, the others are plain.
FILE_MODES == {420, 422, 2541, 2543, 1517, 1519, 3565, 3583}
InitPermissions ==
    InitFrom(ROOT_KINDS, {DEFAULT_CONFIG, CONFIG_NO_TYPES}, {0}, {FALSE},
             {DIR_OK, Dir(511, TRUE)},
             {DIR_OK, Dir(511, TRUE), Dir(3565, TRUE), Dir(3583, TRUE), DIR_VANISHED},
             {tree \in [Files -> {WithMode(PNG, mode) : mode \in FILE_MODES}
                                 \cup {WithFault(WithMode(PNG, 3583), "os.stat")}] :
                 \A f \in Files : f > 2 => tree[f] = PNG},
             {0})

SpecPermissions == InitPermissions /\ [][Next]_vars

\* ===================================================================
\* Properties
\* ===================================================================
\* What the tree determines, stated without the walk.
ScanOver == pc \in {"report", "write_bigfiles", "write_permissions", "returned"}
\* the files of the directories the walk lists
VisitedFiles == {f \in Files : Listed(DirOfFile(f))}
\* the subdirectories the walk meets in some dirs list
MetDirs == {d \in SubDirs : Listed(ParentOfDir(d))}
\* the step of analyze_files at which file f raises, "none" when it does not
FailedStep(f) ==
    LET fault == fs_files[f].fault
    IN  IF fault = "os.stat" THEN "permissions"
        ELSE IF fault = "getsize@mimetype" \/ (fault = "magic.from_file" /\ thorough)
        THEN "mimetype"
        ELSE IF fault = "getsize@filesize" THEN "filesize"
        ELSE "none"
FailedFiles == {f \in VisitedFiles : FailedStep(f) # "none"}
\* the files whose classification completed
ClassifiedFiles == {f \in VisitedFiles : FailedStep(f) \in {"none", "filesize"}}
DirStatErrors == Cardinality({d \in MetDirs : fs_dirs[d].fault = "os.stat"})
\* the errors that analyze_files returned, all directories together
FileErrors == errors_count - DirStatErrors

RECURSIVE SizeOfAll(_)
\* the total size of the files of S
SizeOfAll(S) ==
    IF S = {} THEN 0
    ELSE LET f == CHOOSE g \in S : TRUE
         IN  fs_files[f].size + SizeOfAll(S \ {f})

\* C4 (as claimed): a file that raised in any of its three steps is in no
\* counter, so at scan end the files visited are those in totals plus the
\* file errors.
C4_ErroredFilesOutsideTotals ==
    ScanOver =>
        /\ totals_storage.found_files =
               Cardinality({f \in VisitedFiles : FailedStep(f) = "none"})
        /\ Cardinality(VisitedFiles) = totals_storage.found_files + FileErrors

\* C4 (amended): a file that raised in its permission check or in its
\* classification is in no counter; a file that raised in its size check
\* was counted in totals before and is counted in errors as well; so at scan
\* end the files visited are those in totals plus the file errors minus the
\* files whose size check raised.
C4_ErroredBeforeClassifiedOutsideTotals ==
    ScanOver =>
        /\ totals_storage.found_files = Cardinality(ClassifiedFiles)
        /\ totals_storage.found_size = SizeOfAll(ClassifiedFiles)
        /\ Cardinality(VisitedFiles) =
               totals_storage.found_files + FileErrors
               - Cardinality({f \in VisitedFiles : FailedStep(f) = "filesize"})

C4_Witness ==
    /\ ScanOver
    /\ \E f, g, h \in VisitedFiles :
          /\ FailedStep(f) = "permissions"
          /\ FailedStep(g) = "mimetype"
          /\ FailedStep(h) = "filesize"

\* C5: in analyze_files the call that raises for a file adds exactly one to
\* errors and the loop goes on with the first call of the next file, skipping
\* the file's remaining calls; a call that returns adds nothing to errors and
\* is followed by the file's next call (after the last one, by the next file).
C5_OneErrorPerFailedFile ==
    [][(pc = "analyze_files" /\ idx <= Len(files)) =>
          IF FailedStep(EntryOf(<<files[idx]>>)) = step
          THEN /\ errors' = errors + 1
               /\ idx' = idx + 1
               /\ step' = "permissions"
               /\ pc' = "analyze_files"
               /\ storages' = storages
          ELSE /\ errors' = errors
               /\ pc' = "analyze_files"
               /\ IF step = "filesize"
                  THEN idx' = idx + 1 /\ step' = "permissions"
                  ELSE idx' = idx /\ step' = IF step = "permissions" THEN "mimetype"
                                             ELSE "filesize"]_vars

\* the first file of a directory raised, the second passed its first call
C5_Witness ==
    /\ pc = "analyze_files"
    /\ idx = 2
    /\ idx <= Len(files)
    /\ errors = 1
    /\ step = "mimetype"

\* C6 (as claimed): at scan end the error count is the number of entries
\* below the root that met an I/O error: the files that raised, the
\* directories that could not be stat'ed, the directories that could not be
\* listed.
C6_EveryEntryErrorCounted ==
    ScanOver =>
        errors_count =
            Cardinality(FailedFiles)
            + Cardinality({d \in MetDirs :
                              fs_dirs[d].fault = "os.stat" \/ ~fs_dirs[d].listable})

\* C7 (as claimed): a scan of a root directory that cannot be listed does
\* not return to the caller.
C7_UnlistableRootIsFatal ==
    (root_kind = "dir" /\ ~fs_dirs[0].listable) => ~ScanOver

\* C8 (as claimed): main, ended by check_path or check_size_threshold, exits
\* with a non-zero status.
C8_InvalidInputExitsNonZero ==
    pc = "exited" => exit_code # None /\ exit_code[1] # 0

\* C9: with a dir_path that is no directory, or a negative threshold, no
\* traversal ever starts and no output file is ever written.
C9_InvalidInputNoTraversalNoOutput ==
    (root_kind # "dir" \/ size_threshold < 0) =>
        /\ walks_started = 0
        /\ \A p \in OUTPUT_PATHS : out_files[p] = None
        /\ ~ScanOver

C9_Witness ==
    /\ pc = "exited"
    /\ root_kind = "missing"

\* the mimetype analyze_files_mimetype resolves for file f
ResolvedMime(f) ==
    IF thorough THEN fs_files[f].magic
    ELSE IF fs_files[f].guess = None THEN empty_str ELSE fs_files[f].guess[1]
\* the configured categories whose tag is a prefix of the mimetype of f
MatchingCategories(f) ==
    {i \in 1..Len(config.searchable_types) :
        StartsWith(ResolvedMime(f), config.searchable_types[i].tag)}
\* the files whose first matching category is i
FirstMatchedBy(i) ==
    {f \in ClassifiedFiles :
        i \in MatchingCategories(f) /\ \A j \in MatchingCategories(f) : i <= j}
Unmatched == {f \in ClassifiedFiles : MatchingCategories(f) = {}}

RECURSIVE SumFoundFiles(_)
SumFoundFiles(rs) ==
    IF rs = << >> THEN 0 ELSE Head(rs).found_files + SumFoundFiles(Tail(rs))
RECURSIVE SumFoundSize(_)
SumFoundSize(rs) ==
    IF rs = << >> THEN 0 ELSE Head(rs).found_size + SumFoundSize(Tail(rs))

\* C1: after every call of analyze_files_mimetype, raised or not, and so when
\* analyze_filesystem returns, the files and the bytes of totals are the sums
\* of those of the configured categories plus those of 'other'.
C1_TotalsAreSumOfBuckets ==
    /\ totals_storage.found_files =
           SumFoundFiles(result_storages) + others_storage.found_files
    /\ totals_storage.found_size =
           SumFoundSize(result_storages) + others_storage.found_size

\* a scan that counted in a category and in 'other' and met an error
C1_Witness ==
    /\ ScanOver
    /\ SumFoundFiles(result_storages) >= 1
    /\ others_storage.found_files >= 1
    /\ totals_storage.found_size >= 2
    /\ errors_count >= 1

\* C2: at scan end each configured category holds the number and the total
\* size of the classified files whose first matching category, in the order
\* of the configuration, it is, and 'other' those of the classified files
\* that no category matches.
C2_FirstMatchingCategoryCounts ==
    ScanOver =>
        /\ Len(result_storages) = Len(config.searchable_types)
        /\ \A i \in 1..Len(result_storages) :
              /\ result_storages[i].displayable_name = config.searchable_types[i].name
              /\ result_storages[i].found_files = Cardinality(FirstMatchedBy(i))
              /\ result_storages[i].found_size = SizeOfAll(FirstMatchedBy(i))
        /\ others_storage.found_files = Cardinality(Unmatched)
        /\ others_storage.found_size = SizeOfAll(Unmatched)

\* a classified file that two configured prefixes match
C2_Witness ==
    /\ ScanOver
    /\ \E f \in ClassifiedFiles : Cardinality(MatchingCategories(f)) >= 2
    /\ \E f \in ClassifiedFiles : Cardinality(MatchingCategories(f)) = 0

\* C3 (as claimed): at scan end every classified file whose mimetype is
\* empty is in 'other', and the configured categories hold only files whose
\* mimetype is not empty.
C3_EmptyMimetypeInOther ==
    ScanOver =>
        /\ others_storage.found_files >=
               Cardinality({f \in ClassifiedFiles : ResolvedMime(f) = empty_str})
        /\ SumFoundFiles(result_storages) <=
               Cardinality({f \in ClassifiedFiles : ResolvedMime(f) # empty_str})

RECURSIVE DirPath(_)
\* the path under which the walk meets directory d
DirPath(d) ==
    IF d = 0 THEN ROOT_PATH ELSE PathJoin(DirPath(ParentOfDir(d)), DirName(d))
FilePath(f) == PathJoin(DirPath(DirOfFile(f)), FileName(f))
HasBit(mode, bit) == (mode \div bit) % 2 = 1
\* the entries whose mode the inspectors read
InspectedFiles == {f \in VisitedFiles : fs_files[f].fault # "os.stat"}
InspectedDirs == {d \in MetDirs : fs_dirs[d].fault # "os.stat"}
\* the one warning of a file with a reportable bit: the last set bit in the
\* order world-writable, setuid, setgid
FileWarningKind(mode) ==
    IF HasBit(mode, S_ISGID) THEN "SGID bit set"
    ELSE IF HasBit(mode, S_ISUID) THEN "SUID is set"
    ELSE "world-writable"
Reportable(mode) ==
    HasBit(mode, S_IWOTH) \/ HasBit(mode, S_ISUID) \/ HasBit(mode, S_ISGID)
ExpectedWarnings ==
    {Warning(FileWarningKind(fs_files[f].mode), FilePath(f)) :
        f \in {g \in InspectedFiles : Reportable(fs_files[g].mode)}}
    \cup
    {Warning("world-writable", DirPath(d)) :
        d \in {e \in InspectedDirs : HasBit(fs_dirs[e].mode, S_IWOTH)}}

\* C10: at scan end the warnings are, one each and no other, that of every
\* inspected file with a reportable bit, naming its last set bit in the
\* order world-writable, setuid, setgid, and the world-writable warning of
\* every inspected directory whose world-writable bit is set.
C10_OneWarningPerReportableEntry ==
    ScanOver =>
        /\ {permission_warnings[i] : i \in 1..Len(permission_warnings)}
               = ExpectedWarnings
        /\ Len(permission_warnings) = Cardinality(ExpectedWarnings)
        /\ Len(permission_warnings) =
               Cardinality({f \in InspectedFiles : Reportable(fs_files[f].mode)})
               + Cardinality({d \in InspectedDirs : HasBit(fs_dirs[d].mode, S_IWOTH)})

\* a file with all three bits, a file with none, a world-writable directory
\* and one with setuid and setgid only
C10_Witness ==
    /\ ScanOver
    /\ \E f, g \in InspectedFiles :
          /\ fs_files[f].mode = 3583
          /\ ~Reportable(fs_files[g].mode)
    /\ \E d \in InspectedDirs : Reportable(fs_dirs[d].mode)
    /\ Len(permission_warnings) >= 2

\* ----------------------------------------------------------------- sizes
\* A file of the given size
Sized(size) == File(Some(image_png), image_png, size)
\* the sizes at and next to the two thresholds
SMALL_FILES == {Sized(0), Sized(1), PNG}
LARGE_FILES == {Sized(GiB), Sized(GiB + 1), WithFault(Sized(GiB + 1), "getsize@filesize")}

\* Thresholds 0 and 1 GiB over files of 0, 1 and 2 bytes, of exactly 1 GiB
\* and of 1 GiB + 1 byte; at most one file of a tree is large
InitSize ==
    InitFrom(ROOT_KINDS, {DEFAULT_CONFIG}, {0, 1}, {FALSE}, {DIR_OK}, {DIR_OK},
             {tree \in [Files -> SMALL_FILES \cup LARGE_FILES] :
                 Cardinality({f \in Files : tree[f] \in LARGE_FILES}) <= 1},
             {0})

SpecSize == InitSize /\ [][Next]_vars

\* the file whose size analyze_files is about to check
FileAtSizeCheck == EntryOf(PathJoin(root, files[idx]))
\* the files the bucket holds at scan end
Oversized ==
    {f \in VisitedFiles : /\ FailedStep(f) = "none"
                          /\ fs_files[f].size > size_threshold * GiB}

\* C11: a size check that does not raise adds the file to the oversized
\* bucket (count + 1, bytes + its size, its path appended) when its size is
\* strictly greater than size_threshold * 2^30 bytes, and leaves the bucket as
\* it is otherwise, a file of exactly the threshold size included; so at scan
\* end the bucket holds exactly the size-checked files larger than the
\* threshold.
C11_OversizedIffStrictlyGreater ==
    [][/\ (pc = "analyze_files" /\ idx <= Len(files) /\ step = "filesize"
              /\ FailedStep(FileAtSizeCheck) = "none") =>
            IF fs_files[FileAtSizeCheck].size > size_threshold * GiB
            THEN /\ bigfiles_storage'.found_files = bigfiles_storage.found_files + 1
                 /\ bigfiles_storage'.found_size =
                        bigfiles_storage.found_size + fs_files[FileAtSizeCheck].size
                 /\ bigfiles_storage'.found_files_paths =
                        Append(bigfiles_storage.found_files_paths,
                               FilePath(FileAtSizeCheck))
            ELSE bigfiles_storage' = bigfiles_storage
       /\ ScanOver' =>
            /\ bigfiles_storage'.found_files = Cardinality(Oversized)
            /\ bigfiles_storage'.found_size = SizeOfAll(Oversized)
            /\ {bigfiles_storage'.found_files_paths[i] :
                    i \in 1..Len(bigfiles_storage'.found_files_paths)}
                 = {FilePath(f) : f \in Oversized}]_vars

\* threshold 0: a 0-byte file was left out and a 1-byte file added
C11_Witness ==
    /\ ScanOver
    /\ size_threshold = 0
    /\ \E f, g \in VisitedFiles :
          /\ fs_files[f].size = 0 /\ fs_files[g].size = 1
          /\ bigfiles_storage.found_files_paths = <<FilePath(g)>>
          /\ FilePath(f) # FilePath(g)

\* threshold 1 GiB: a file of exactly 1 GiB was left out
C11_WitnessExactThreshold ==
    /\ ScanOver
    /\ size_threshold = 1
    /\ \E f \in VisitedFiles : fs_files[f].size = GiB /\ FailedStep(f) = "none"
    /\ bigfiles_storage.found_files = 0

\* threshold 1 GiB: a file of 1 GiB + 1 byte was added
C11_WitnessOneByteMore ==
    /\ ScanOver
    /\ size_threshold = 1
    /\ \E f \in VisitedFiles :
          /\ fs_files[f].size = GiB + 1
          /\ bigfiles_storage.found_files_paths = <<FilePath(f)>>
          /\ bigfiles_storage.found_size = GiB + 1

\* ------------------------------------------------------- visitation order
RECURSIVE VisitOrder(_)
RECURSIVE VisitOrderOfAll(_)
\* the entries in the order a top-down walk of the tree below directory d
\* comes to them: the subdirectories of d, the files of d, then what lies
\* below each subdirectory in turn; nothing when d cannot be listed
VisitOrder(d) ==
    IF ~fs_dirs[d].listable THEN << >>
    ELSE LET subs == SortedSeq({e \in SubDirs : ParentOfDir(e) = d})
             here == SortedSeq({f \in Files : DirOfFile(f) = d})
         IN  [i \in 1..Len(subs) |-> DirPath(subs[i])]
             \o [i \in 1..Len(here) |-> FilePath(here[i])]
             \o VisitOrderOfAll(subs)
VisitOrderOfAll(ds) ==
    IF ds = << >> THEN << >> ELSE VisitOrder(Head(ds)) \o VisitOrderOfAll(Tail(ds))

IsPrefix(s, t) == Len(s) <= Len(t) /\ \A i \in 1..Len(s) : s[i] = t[i]
HasWarning(path) == \E w \in ExpectedWarnings : w.path = path
WarningOf(path) == CHOOSE w \in ExpectedWarnings : w.path = path
IsOversized(path) ==
    /\ IsFilePath(path)
    /\ FailedStep(EntryOf(path)) = "none"
    /\ fs_files[EntryOf(path)].size > size_threshold * GiB
\* the warnings, and the oversized paths, in visitation order
WarningsInVisitOrder ==
    LET warned == SelectSeq(VisitOrder(0), HasWarning)
    IN  [i \in 1..Len(warned) |-> WarningOf(warned[i])]
OversizedInVisitOrder == SelectSeq(VisitOrder(0), IsOversized)
Walking == pc \in {"walk", "analyze_directories", "analyze_files"}

\* C12: during the walk the warning list and the oversized-path list only
\* grow at their end, and when the walk is over they are the warnings and the
\* oversized paths in the order in which the top-down walk came to their
\* entries.
C12_ListsInVisitationOrder ==
    [][Walking =>
          /\ IsPrefix(permission_warnings, permission_warnings')
          /\ IsPrefix(bigfiles_storage.found_files_paths,
                      bigfiles_storage'.found_files_paths)
          /\ IsPrefix(permission_warnings', WarningsInVisitOrder)
          /\ IsPrefix(bigfiles_storage'.found_files_paths, OversizedInVisitOrder)
          /\ ScanOver' =>
                /\ permission_warnings' = WarningsInVisitOrder
                /\ bigfiles_storage'.found_files_paths = OversizedInVisitOrder]_vars

\* the warning of a subdirectory, then that of a file beside it, then that
\* of a file inside it, and three oversized paths
C12_Witness ==
    /\ ScanOver
    /\ Len(permission_warnings) >= 3
    /\ ~IsFilePath(permission_warnings[1].path)
    /\ \E i, j \in 2..Len(permission_warnings) :
          /\ i < j
          /\ IsFilePath(permission_warnings[i].path)
          /\ IsFilePath(permission_warnings[j].path)
          /\ Len(permission_warnings[i].path) < Len(permission_warnings[j].path)
    /\ Len(bigfiles_storage.found_files_paths) >= 3

\* ------------------------------------------------------- successive runs
\* Every number of further calls of main over trees with a warning, an
\* oversized file, a failing file and an unlistable directory, under two
\* configurations
InitRerun ==
    InitFrom(ROOT_KINDS, {DEFAULT_CONFIG, CONFIG_OVERLAP}, {0}, {FALSE}, {DIR_OK},
             {DIR_OK, DIR_UNLISTABLE},
             [Files -> {PNG, WithMode(TXT, 3583), WithFault(PNG, "getsize@filesize")}],
             0..(MaxCalls - 1))

SpecRerun == InitRerun /\ [][Next]_vars

Fresh(storage) ==
    /\ storage.found_files = 0
    /\ storage.found_size = 0
    /\ storage.found_files_paths = << >>

\* C13: every run of analyze_filesystem starts with all counters at zero and
\* all lists empty, and any two calls of main that one process makes on the
\* same tree with the same configuration, mode and threshold return the same
\* category, other, totals and oversized counters, the same oversized paths,
\* the same warnings and the same error count.
C13_SuccessiveRunsReturnTheSame ==
    [][/\ pc = "analyze_filesystem" =>
            /\ \A i \in 1..Len(result_storages') : Fresh(result_storages'[i])
            /\ Fresh(others_storage') /\ Fresh(totals_storage')
            /\ Fresh(bigfiles_storage')
            /\ permission_warnings' = << >>
            /\ errors_count' = 0
       /\ \A i, j \in 1..Len(history') :
            history'[i].config = history'[j].config =>
                history'[i].returned = history'[j].returned]_vars

\* two calls under one configuration have returned files, an oversized
\* path, a warning and an error
C13_Witness ==
    /\ Len(history) >= 2
    /\ history[1].config = history[2].config
    /\ history[2].returned.totals_storage.found_files >= 2
    /\ Len(history[2].returned.big_files_storage.found_files_paths) >= 1
    /\ Len(history[2].returned.permission_warnings) >= 1
    /\ history[2].returned.errored_files_count >= 1
    /\ \E i \in 1..Len(history[2].returned.result_storages) :
          history[2].returned.result_storages[i].found_files >= 1

\* ------------------------------------------------------------ the report
ReportPrinted == displayed' = displayed + 1
ReportWritten ==
    /\ to_file'
    /\ out_files' = [out_files EXCEPT !["analysis_output_path"] =
                                          Some(build_rich_table)]

\* C14 (as claimed): the report of a run goes to the display or to the
\* analysis output file, never to both.
C14_ReportToExactlyOneDestination ==
    [][pc = "report" =>
          \/ ReportPrinted /\ out_files' = out_files
          \/ ReportWritten /\ displayed' = displayed]_vars

\* C14 (amended): the report of a run is always printed on the display;
\* with --to-file it is written to the analysis output file as well, and
\* without it no output file is touched at that point.
C14_ReportPrintedAndWithToFileWritten ==
    [][pc = "report" =>
          /\ ReportPrinted
          /\ IF to_file' THEN ReportWritten ELSE out_files' = out_files]_vars

\* a run with --to-file has printed the table and written it
C14_Witness ==
    /\ pc = "write_bigfiles"
    /\ to_file
    /\ displayed = 1
    /\ out_files["analysis_output_path"] = Some(build_rich_table)
    /\ totals_storage.found_files >= 1

\* a run without --to-file has printed the table and written nothing
C14_WitnessDisplayOnly ==
    /\ pc = "write_bigfiles"
    /\ ~to_file
    /\ displayed = 1
    /\ out_files["analysis_output_path"] = None

\* ----------------------------------------------- inspection of directories
\* path p lies somewhere below the directory of path q
IsBelow(p, q) == Len(q) < Len(p) /\ \A i \in 1..Len(q) : p[i] = q[i]
InspectedAt(i) == inspected[i]
PositionsOf(path) == {i \in 1..Len(inspected) : inspected[i] = path}

\* C15: the root is never permission-inspected and so gives neither a
\* warning nor an error; every other directory the walk meets is inspected
\* exactly once, while its parent is visited and before that parent's files:
\* no entry below a directory is inspected before the directory itself, and
\* at scan end the directories inspected are those met, each once.
C15_SubdirectoriesInspectedOnceRootNever ==
    /\ PositionsOf(ROOT_PATH) = {}
    /\ \A i \in 1..Len(permission_warnings) : permission_warnings[i].path # ROOT_PATH
    /\ \A d \in SubDirs : Cardinality(PositionsOf(DirPath(d))) <= 1
    /\ \A i, j \in 1..Len(inspected) :
          IsBelow(InspectedAt(j), InspectedAt(i)) => i < j
    /\ \A i \in 1..Len(inspected) :
          Len(InspectedAt(i)) > 2 =>
              \E j \in 1..(i - 1) : /\ ~IsFilePath(InspectedAt(j))
                                    /\ Len(InspectedAt(j)) = Len(InspectedAt(i)) - 1
                                    /\ IsBelow(InspectedAt(i), InspectedAt(j))
    /\ pc = "analyze_files" =>
          \A d \in SubDirs :
              ParentOfDir(d) = EntryOf(root) => PositionsOf(DirPath(d)) # {}
    /\ ScanOver =>
          /\ \A d \in SubDirs :
                Cardinality(PositionsOf(DirPath(d))) = IF d \in MetDirs THEN 1 ELSE 0
          /\ errors_count =
                 Cardinality({d \in MetDirs : fs_dirs[d].fault = "os.stat"})
                 + Cardinality(FailedFiles)

\* a world-writable root was walked without a warning for it; its
\* subdirectory was inspected first of all, the files inside it last
C15_Witness ==
    /\ ScanOver
    /\ HasBit(fs_dirs[0].mode, S_IWOTH)
    /\ Len(inspected) >= 4
    /\ inspected[1] = DirPath(1)
    /\ IsBelow(inspected[Len(inspected)], DirPath(1))
    /\ Len(permission_warnings) >= 1
    /\ errors_count = 0

\* ------------------------------------------- the oversized bucket and totals
\* C16: in every state the oversized bucket counts as many files as it
\* holds paths, each path is that of a file already counted in totals, and
\* neither its count nor its bytes exceed those of totals.
C16_OversizedWithinTotals ==
    /\ bigfiles_storage.found_files = Len(bigfiles_storage.found_files_paths)
    /\ \A i \in 1..Len(bigfiles_storage.found_files_paths) :
          /\ EntryOf(bigfiles_storage.found_files_paths[i]) \in ClassifiedFiles
          /\ \A j \in 1..Len(bigfiles_storage.found_files_paths) :
                bigfiles_storage.found_files_paths[i]
                    = bigfiles_storage.found_files_paths[j] => i = j
    /\ bigfiles_storage.found_files <= totals_storage.found_files
    /\ bigfiles_storage.found_size <= totals_storage.found_size

\* in the middle of a directory: one file is in the bucket, another is in
\* totals only because its size check raised
C16_Witness ==
    /\ pc = "analyze_files"
    /\ idx <= Len(files)
    /\ bigfiles_storage.found_files >= 1
    /\ bigfiles_storage.found_files < totals_storage.found_files
    /\ bigfiles_storage.found_size < totals_storage.found_size
    /\ errors >= 1

====
